---- MODULE Spec2Model ----
(***************************************************************************)
(* PixelwiseSoftmaxClassifier (chainercv/links/model/                      *)
(* pixelwise_softmax_classifier.py): a chain around a predictor that       *)
(* computes a pixel-wise softmax cross-entropy loss, reports it, and       *)
(* optionally evaluates and reports four segmentation scores.              *)
(*                                                                         *)
(* Numbers.  A float is modelled as an exact fraction [num, den]; den = 0  *)
(* is NaN (the only undefined value that arises here is 0/0).  Losses are  *)
(* counted in thousandths of a nat.  A batch is a flat sequence of NPix    *)
(* pixels; the predictor's score vector of a pixel has one entry per       *)
(* class.                                                                  *)
(***************************************************************************)
EXTENDS Integers, Sequences, FiniteSets

\* Pixels in a batch.
NPix == 2
\* predictor.n_class of the predictor the classifier is built around (the
\* number of channels of its output).
NClass == 2

-----------------------------------------------------------------------------
(* Values *)

None == [tag |-> "None"]
\* An attribute that no statement has assigned yet.
Unset == [tag |-> "unset"]

NaN == [num |-> 0, den |-> 0]
Zero == [num |-> 0, den |-> 1]

RECURSIVE GCD(_, _)
GCD(a, b) == IF b = 0 THEN a ELSE GCD(b, a % b)

\* n / d for n >= 0, d >= 0, in lowest terms; 0/0 is NaN.
Frac(n, d) ==
    IF d = 0 THEN NaN
    ELSE LET g == GCD(n, d) IN [num |-> n \div g, den |-> d \div g]

IsNaN(a) == a.den = 0

FAdd(a, b) ==
    IF IsNaN(a) \/ IsNaN(b) THEN NaN
    ELSE Frac(a.num * b.den + b.num * a.den, a.den * b.den)

FMul(a, b) ==
    IF IsNaN(a) \/ IsNaN(b) THEN NaN
    ELSE Frac(a.num * b.num, a.den * b.den)

RECURSIVE FSum(_)
FSum(arr) == IF arr = <<>> THEN Zero ELSE FAdd(Head(arr), FSum(Tail(arr)))

\* xp.mean: the plain arithmetic mean; one NaN entry makes the mean NaN,
\* and so does an empty array.
Mean(arr) == FMul(FSum(arr), Frac(1, Len(arr)))

Variable(d) == [tag |-> "Variable", data |-> d]

-----------------------------------------------------------------------------
(* Inputs *)

Pixels == 1..NPix

\* Score vectors a predictor with n channels puts out for one pixel: score
\* 1 for one class and 0 for the others.
ScoreVectors(n) == {[c \in 1..n |-> IF c = k THEN 1 ELSE 0] : k \in 1..n}

\* What the predictor does with a batch: it returns scores for every pixel,
\* or it raises (an input it cannot process).
PredictorRaises == [tag |-> "raise"]
Outputs(n) == {Variable(d) : d \in [Pixels -> ScoreVectors(n)]}
PredictorResults(n) == Outputs(n) \cup {PredictorRaises}

\* Ground truth handed to a call: per pixel a class id or the ignore label,
\* or an array the loss function rejects (its shape does not match y).
Malformed == [tag |-> "malformed"]
Labels(n, il) == (0..(n - 1)) \cup {il}
Truths(n, il) == {Variable(d) : d \in [Pixels -> Labels(n, il)]}
TruthArgs(n, il) == Truths(n, il) \cup {Malformed}

IgnoreLabels == {-1, 0}

\* Weight lists a caller hands to the constructor: none, or class 0
\* weighted twice as much as the others.
WeightArgs(n) == {None, [tag |-> "list", data |-> [c \in 1..n |-> IF c = 1 THEN 2 ELSE 1]]}

-----------------------------------------------------------------------------
(* Delegated routines *)

\* 1000 * log(sum(exp(v))) of a score vector with entries 0 and 1, by the
\* number k of ones among its n entries: 1000 * ln((n - k) + k * e).
LogSumExp(v) ==
    LET n == Len(v)
        k == Cardinality({c \in 1..n : v[c] = 1})
        table == <<  <<0, 1000>>,
                     <<693, 1313, 1693>>,
                     <<1099, 1551, 1862, 2099>>,
                     <<1386, 1744, 2010, 2223, 2386>>  >>
    IN table[n][k + 1]

\* -log softmax(v)[c] in thousandths, for class id c (0-based).
NegLogSoftmax(v, c) == LogSumExp(v) - 1000 * v[c + 1]

RECURSIVE SumOver(_, _)
SumOver(S, f) ==
    IF S = {} THEN 0
    ELSE LET k == CHOOSE k \in S : TRUE IN f[k] + SumOver(S \ {k}, f)

\* chainer.functions.softmax_cross_entropy(y, t, class_weight=cw,
\* ignore_label=il), normalised: pixels whose label is il contribute
\* nothing and are not counted; the other pixels' negative log-likelihoods
\* are multiplied by their label's class weight, summed, and divided by
\* max(count, 1).
softmax_cross_entropy(yy, tt, cw, il) ==
    LET kept == {p \in DOMAIN tt : tt[p] # il}
        w(c) == IF cw.tag = "None" THEN 1 ELSE cw.data[c + 1]
        term == [p \in kept |-> w(tt[p]) * NegLogSoftmax(yy[p], tt[p])]
        count == Cardinality(kept)
    IN Frac(SumOver(kept, term), IF count > 1 THEN count ELSE 1)

\* xp.argmax(y, axis=1): per pixel, the first class id of maximal score.
argmax(yy) ==
    [p \in DOMAIN yy |->
        (CHOOSE c \in 1..Len(yy[p]) :
            /\ \A d \in 1..Len(yy[p]) : yy[p][d] <= yy[p][c]
            /\ \A d \in 1..(c - 1) : yy[p][d] < yy[p][c]) - 1]

\* eval_semantic_segmentation(pred, gt, n): from the confusion counts of
\* the pixels whose ground truth is a class id in 0..n-1, four arrays:
\* pixel accuracy, per-class accuracy, per-class IoU, frequency-weighted
\* IoU.  A class absent from the batch has an undefined (0/0) entry.
eval_semantic_segmentation(pred, gt, n) ==
    LET classes == 0..(n - 1)
        valid == {p \in DOMAIN gt : gt[p] \in classes}
        total == Cardinality(valid)
        row == [c \in classes |-> Cardinality({p \in valid : gt[p] = c})]
        col == [c \in classes |-> Cardinality({p \in valid : pred[p] = c})]
        diag == [c \in classes |->
                    Cardinality({p \in valid : gt[p] = c /\ pred[p] = c})]
        iou == [c \in classes |-> Frac(diag[c], row[c] + col[c] - diag[c])]
        hits == Cardinality({p \in valid : gt[p] = pred[p]})
        present == SelectSeq([c \in 1..n |-> c - 1], LAMBDA c : row[c] > 0)
    IN << <<Frac(hits, total)>>,
          [c \in 1..n |-> Frac(diag[c - 1], row[c - 1])],
          [c \in 1..n |-> iou[c - 1]],
          <<FSum([i \in 1..Len(present) |->
                    FMul(Frac(row[present[i]], total), iou[present[i]])])>> >>

\* np.asarray(class_weight, dtype=np.float32): a host array holding the
\* list's numbers.
asarray(w) == [tag |-> "ndarray", data |-> w.data, device |-> "cpu"]

\* cuda.to_cpu(array) / cuda.to_gpu(array, device): the same numbers in the
\* other memory space.
cuda_to_cpu(a) == [a EXCEPT !.device = "cpu"]
cuda_to_gpu(a) == [a EXCEPT !.device = "gpu"]

-----------------------------------------------------------------------------
(* The classifier *)

VARIABLES
    predictor,          \* the wrapped network: its n_class attribute
    n_class,            \* self.n_class
    ignore_label,       \* self.ignore_label
    class_weight,       \* self.class_weight: None or an array
    compute_accuracy,   \* self.compute_accuracy
    y,                  \* self.y
    loss,               \* self.loss
    accuracy,           \* self.accuracy
    device,             \* memory space of the chain's parameters
    reports,            \* reporter.report calls made by the latest forward call
    ret,                \* how the latest forward call ended
    call,               \* arguments and flag of the latest forward call
    init_n_class        \* predictor.n_class when the classifier was built

vars == <<predictor, n_class, ignore_label, class_weight, compute_accuracy,
          y, loss, accuracy, device, reports, ret, call, init_n_class>>

\* The classifier object as a record of its attributes.
Self ==
    [predictor |-> predictor, n_class |-> n_class,
     ignore_label |-> ignore_label, class_weight |-> class_weight,
     compute_accuracy |-> compute_accuracy,
     y |-> y, loss |-> loss, accuracy |-> accuracy]

\* The tag every report of this classifier carries.
Observer == "self"

Return(v) == [tag |-> "return", value |-> v]
Raise(from) == [tag |-> "raise", from |-> from]

\* __init__: the class weights as stored.
InitClassWeight(w) == IF w.tag # "None" THEN asarray(w) ELSE w

Init ==
    /\ predictor = [n_class |-> NClass]
    /\ n_class = predictor.n_class
    /\ init_n_class = predictor.n_class
    /\ ignore_label \in IgnoreLabels
    /\ \E w \in WeightArgs(NClass) : class_weight = InitClassWeight(w)
    /\ compute_accuracy \in BOOLEAN
    /\ y = Unset
    /\ loss = Unset
    /\ accuracy = Unset
    /\ device = "cpu"
    /\ reports = <<>>
    /\ ret = [tag |-> "none"]
    /\ call = [tag |-> "none"]

\* to_cpu / to_gpu: what becomes of self.class_weight.
ToCpuClassWeight(cw) == IF cw.tag # "None" THEN cuda_to_cpu(cw) ELSE cw

\* (variant) to_gpu without the None test: whatever class_weight holds is
\* made an array on the device.
ToGpuClassWeightUnguarded(cw) ==
    [tag |-> "ndarray", data |-> IF cw.tag = "None" THEN <<>> ELSE cw.data,
     device |-> "gpu"]

ToGpuClassWeight(cw) == IF cw.tag # "None" THEN cuda_to_gpu(cw) ELSE cw

ToCpu ==
    /\ device' = "cpu"
    /\ class_weight' = ToCpuClassWeight(class_weight)
    /\ UNCHANGED <<predictor, n_class, ignore_label, compute_accuracy, y, loss,
                   accuracy, reports, ret, call, init_n_class>>

ToGpu ==
    /\ device' = "gpu"
    /\ class_weight' = ToGpuClassWeight(class_weight)
    /\ UNCHANGED <<predictor, n_class, ignore_label, compute_accuracy, y, loss,
                   accuracy, reports, ret, call, init_n_class>>

\* (variant) the loss computed without passing ignore_label on, so that the
\* loss function falls back on its default of -1.
ComputeLossDefaultIgnore(self, t) ==
    Variable(softmax_cross_entropy(self.y.data, t.data, self.class_weight, -1))

\* The loss of a forward call.
ComputeLoss(self, t) ==
    Variable(softmax_cross_entropy(self.y.data, t.data, self.class_weight,
                                   self.ignore_label))

ReportLoss(self) == [values |-> [loss |-> self.loss], observer |-> Observer]

\* (variant) the statement self.accuracy = None left out.
ResetAccuracySkipped(prev) == prev

\* self.accuracy = None, whatever it held.
ResetAccuracy(prev) == None

\* (variant) the accuracy branch taken whatever the flag says.
AccuracyAlwaysEnabled(self) == TRUE

AccuracyEnabled(self) == self.compute_accuracy

\* (variant) the class count read from the predictor at call time.
EvaluatorNClassFromPredictor(self) == self.predictor.n_class

\* The class count handed to the evaluator.
EvaluatorNClass(self) == self.n_class

ComputeAccuracy(self, t) ==
    [tag |-> "tuple",
     items |-> eval_semantic_segmentation(argmax(self.y.data), t.data,
                                          EvaluatorNClass(self))]

ReportAccuracy(self) ==
    [values |-> [pixel_accuracy |-> Mean(self.accuracy.items[1]),
                 mean_accuracy |-> Mean(self.accuracy.items[2]),
                 mean_iou |-> Mean(self.accuracy.items[3]),
                 fw_iou |-> Mean(self.accuracy.items[4])],
     observer |-> Observer]

\* (variant) the loss reported only after the evaluator has returned.
ReportedNothingBeforeEvaluator(lossReport) == <<>>

\* The reports made by the time the evaluator is called.
ReportedBeforeEvaluator(lossReport) == <<lossReport>>

\* (variant) the accuracy scores reported ahead of the loss.
ReportedAccuracyFirst(lossReport, accuracyReport) == <<accuracyReport, lossReport>>

\* The reports of a call that ran to its end with accuracy enabled.
ReportedInAll(lossReport, accuracyReport) == <<lossReport, accuracyReport>>

\* __call__(x, t).  out is what the predictor does with x; evalRaises tells
\* whether the evaluator raises in this call.  The result is the classifier
\* afterwards, the reports made, and how the call ended.
Forward(self, out, t, evalRaises) ==
    IF out.tag = "raise"
    THEN [self |-> self, reports |-> <<>>, ret |-> Raise("predictor")]
    ELSE
    LET s1 == [self EXCEPT !.y = out] IN
    IF t.tag = "malformed"
    THEN [self |-> s1, reports |-> <<>>, ret |-> Raise("loss")]
    ELSE
    LET s2 == [s1 EXCEPT !.loss = ComputeLoss(s1, t)]
        r1 == ReportLoss(s2)
        s3 == [s2 EXCEPT !.accuracy = ResetAccuracy(s2.accuracy)]
    IN
    IF ~AccuracyEnabled(s3)
    THEN [self |-> s3, reports |-> <<r1>>, ret |-> Return(s3.loss)]
    ELSE IF evalRaises
    THEN [self |-> s3, reports |-> ReportedBeforeEvaluator(r1),
          ret |-> Raise("evaluator")]
    ELSE
    LET s4 == [s3 EXCEPT !.accuracy = ComputeAccuracy(s3, t)] IN
    [self |-> s4, reports |-> ReportedInAll(r1, ReportAccuracy(s4)),
     ret |-> Return(s4.loss)]

\* A forward call.  An exception reaches the caller, who makes no further
\* call on the classifier.  call keeps the ground truth the loss function
\* was given, the flag the call ran under, and whether self.accuracy held
\* a tuple when the call began.
Call ==
    /\ ret.tag # "raise"
    /\ \E out \in PredictorResults(NClass),
          t \in TruthArgs(NClass, ignore_label),
          evalRaises \in (IF compute_accuracy THEN BOOLEAN ELSE {FALSE}) :
        \E r \in {Forward(Self, out, t, evalRaises)} :
        /\ y' = r.self.y
        /\ loss' = r.self.loss
        /\ accuracy' = r.self.accuracy
        /\ reports' = r.reports
        /\ ret' = r.ret
        /\ call' = [tag |-> "call",
                    t |-> IF out.tag = "raise" THEN Unset ELSE t,
                    compute_accuracy |-> compute_accuracy,
                    had_accuracy |-> accuracy.tag = "tuple"]
        /\ UNCHANGED <<predictor, n_class, ignore_label, class_weight,
                       compute_accuracy, device, init_n_class>>

\* A client assigns the public attribute compute_accuracy.
SetComputeAccuracy ==
    /\ compute_accuracy' = ~compute_accuracy
    /\ UNCHANGED <<predictor, n_class, ignore_label, class_weight, y, loss,
                   accuracy, device, reports, ret, call, init_n_class>>

\* A client assigns the predictor's n_class attribute, after the classifier
\* was built around it and before the classifier is first called.
SetPredictorNClass ==
    /\ call.tag = "none"
    /\ predictor.n_class = init_n_class
    /\ predictor' = [predictor EXCEPT !.n_class = init_n_class + 1]
    /\ UNCHANGED <<n_class, ignore_label, class_weight, compute_accuracy,
                   y, loss, accuracy, device, reports, ret, call,
                   init_n_class>>

Next == ToCpu \/ ToGpu \/ Call \/ SetComputeAccuracy \/ SetPredictorNClass

Spec == Init /\ [][Next]_vars

-----------------------------------------------------------------------------
(* Properties *)

Returned == ret.tag = "return"
RaisedFrom(from) == ret.tag = "raise" /\ ret.from = from

AccuracyKeys == {"pixel_accuracy", "mean_accuracy", "mean_iou", "fw_iou"}
Keys(report) == DOMAIN report.values

\* The mean over the defined entries only (numpy's nanmean).
NanMean(arr) == Mean(SelectSeq(arr, LAMBDA a : ~IsNaN(a)))

\* A defined number between 0 and 1.
InUnitInterval(a) == ~IsNaN(a) /\ 0 <= a.num /\ a.num <= a.den

\* The latest call got as far as the loss function, which accepted t.
LossComputed == Returned \/ RaisedFrom("evaluator")

AllIgnored == \A p \in Pixels : call.t.data[p] = ignore_label
NoneIgnored == \A p \in Pixels : call.t.data[p] # ignore_label

\* The same classifier with the flag compute_accuracy set to b and no
\* transient field assigned yet.
Fresh(b) ==
    [Self EXCEPT !.compute_accuracy = b, !.y = Unset, !.loss = Unset,
                 !.accuracy = Unset]

\* C1: a forward call on a classifier with compute_accuracy disabled makes
\* one report, whose only key is "loss", and the loss it reports and
\* returns is the loss an otherwise identical classifier with
\* compute_accuracy enabled reports (also when its evaluator then raises)
\* and returns on the same input.
C1_DisabledReportsOnlySameLoss ==
    (Returned /\ ~call.compute_accuracy) =>
        LET twin == Forward(Fresh(TRUE), y, call.t, FALSE)
            twinRaising == Forward(Fresh(TRUE), y, call.t, TRUE)
        IN /\ Len(reports) = 1
           /\ Keys(reports[1]) = {"loss"}
           /\ reports[1].values.loss = twin.reports[1].values.loss
           /\ reports[1].values.loss = twinRaising.reports[1].values.loss
           /\ Keys(twin.reports[2]) = AccuracyKeys
           /\ ret = twin.ret

C1_Witness ==
    /\ Returned /\ ~call.compute_accuracy
    /\ loss.data.num > 0
    /\ \E p \in Pixels : call.t.data[p] = ignore_label
    /\ class_weight.tag = "ndarray"

\* C2: pixels whose ground truth equals the configured ignore_label do not
\* count in the accuracy: the four reported scores are those of the batch
\* without these pixels.
C2_IgnoredPixelsLeftOutOfAccuracy ==
    (Returned /\ call.compute_accuracy) =>
        LET gt == [p \in Pixels |->
                      IF call.t.data[p] = ignore_label THEN -1
                      ELSE call.t.data[p]]
            kept == eval_semantic_segmentation(argmax(y.data), gt, n_class)
        IN reports[2].values =
               [pixel_accuracy |-> Mean(kept[1]), mean_accuracy |-> Mean(kept[2]),
                mean_iou |-> Mean(kept[3]), fw_iou |-> Mean(kept[4])]

\* C3: the reported mean_accuracy and mean_iou are the means of the
\* evaluator's per-class arrays over their defined entries; an undefined
\* entry of an absent class is left out.
C3_MeansSkipUndefinedEntries ==
    (Returned /\ call.compute_accuracy) =>
        /\ reports[2].values.mean_accuracy = NanMean(accuracy.items[2])
        /\ reports[2].values.mean_iou = NanMean(accuracy.items[3])

\* C4: a classifier whose class_weight is None keeps it None through every
\* to_cpu, to_gpu and forward call.
C4_NoneWeightStaysNone ==
    [][class_weight = None => class_weight' = None]_vars

C4_Witness ==
    /\ class_weight = None
    /\ device = "gpu"
    /\ Returned

\* C5: after a forward call that returned, y, loss and accuracy are what
\* that call alone produces (the same as on a classifier never called
\* before), and accuracy is None when the call ran with compute_accuracy
\* disabled, whatever an earlier call had stored.
C5_TransientFieldsOfLatestCallOnly ==
    Returned =>
        LET alone == Forward(Fresh(call.compute_accuracy), y, call.t, FALSE).self
        IN /\ y = alone.y
           /\ loss = alone.loss
           /\ accuracy = alone.accuracy
           /\ (~call.compute_accuracy => accuracy = None)

C5_Witness ==
    /\ Returned /\ ~call.compute_accuracy
    /\ call.had_accuracy
    /\ accuracy = None

\* C6: with no ignored pixel in the ground truth, each of the four reported
\* accuracy scores lies in [0, 1].
C6_ScoresInUnitInterval ==
    (Returned /\ call.compute_accuracy /\ NoneIgnored) =>
        \A k \in AccuracyKeys : InUnitInterval(reports[2].values[k])

\* C7: when every ground-truth pixel equals ignore_label, the loss stored,
\* reported and returned is zero.
C7_AllIgnoredLossZero ==
    (LossComputed /\ AllIgnored) =>
        /\ loss = Variable(Zero)
        /\ reports[1].values.loss = Variable(Zero)
        /\ (Returned => ret.value = Variable(Zero))

C7_Witness ==
    /\ Returned /\ AllIgnored
    /\ ignore_label = 0
    /\ class_weight.tag = "ndarray"
    /\ loss = Variable(Zero)

\* C8: n_class keeps the value the predictor had at construction, and the
\* evaluator is called with that class count (its per-class arrays have
\* that many entries), also after the predictor's attribute was changed.
C8_ClassCountReadOnce ==
    /\ n_class = init_n_class
    /\ accuracy.tag = "tuple" =>
        /\ Len(accuracy.items[2]) = init_n_class
        /\ Len(accuracy.items[3]) = init_n_class

C8_Witness ==
    /\ Returned
    /\ accuracy.tag = "tuple"
    /\ predictor.n_class # init_n_class
    /\ device = "gpu"

\* C9: a forward call reports the loss first: with accuracy enabled it
\* makes two reports, {"loss"} and then the four accuracy keys, both tagged
\* with the classifier; the value returned is the loss reported and stored.
C9_LossReportedFirst ==
    Returned =>
        /\ Keys(reports[1]) = {"loss"}
        /\ reports[1].observer = "self"
        /\ reports[1].values.loss = loss
        /\ ret.value = loss
        /\ Len(reports) = IF call.compute_accuracy THEN 2 ELSE 1
        /\ call.compute_accuracy =>
            /\ Keys(reports[2]) = AccuracyKeys
            /\ reports[2].observer = "self"

C9_Witness ==
    /\ Returned /\ call.compute_accuracy
    /\ Len(reports) = 2
    /\ loss.data.num > 0

\* C10: a forward call in which the evaluator raises has already stored the
\* new y and loss and reported the loss, has set accuracy to None, and
\* reports no accuracy key; a call in which the predictor or the loss
\* function raises reports nothing and leaves accuracy as it was.
C10_FailureLeavesPartialUpdate ==
    [][(ret.tag # "raise" /\ ret'.tag = "raise") =>
        /\ ret'.from = "evaluator" =>
            /\ loss' = Variable(softmax_cross_entropy(
                           y'.data, call'.t.data, class_weight, ignore_label))
            /\ reports' = <<[values |-> [loss |-> loss'], observer |-> "self"]>>
            /\ accuracy' = None
        /\ ret'.from = "loss" =>
            /\ reports' = <<>>
            /\ accuracy' = accuracy
            /\ loss' = loss
        /\ ret'.from = "predictor" =>
            /\ reports' = <<>>
            /\ accuracy' = accuracy
            /\ loss' = loss
            /\ y' = y]_vars

C10_Witness ==
    /\ RaisedFrom("evaluator")
    /\ call.had_accuracy
    /\ accuracy = None
    /\ Len(reports) = 1

=============================================================================
